---------------------------- MODULE Spec2Model ----------------------------
(***************************************************************************)
(* Model of scripts/_vault_commands.py: the two helpers that decode a      *)
(* Vault response, _ensure_approle_auth_enabled and _generate_secret_id.   *)
(*                                                                         *)
(* A payload is a sequence of JSON tokens (whitespace is already dropped). *)
(* Python values are records [t, s, keys, items]: t is the Python type, s  *)
(* the characters of a str or of a number's repr, keys/items the keys and  *)
(* values of a dict in insertion order, items the elements of a list.      *)
(* Every call runs in a frame of its own (pc, payload and the locals data, *)
(* auth_methods, secret_id); calls are interleaved statement by statement. *)
(***************************************************************************)
EXTENDS Naturals, Sequences, FiniteSets, TLC

VARIABLES pc, fn, payload, data, auth_methods, secret_id, outcome

vars == <<pc, fn, payload, data, auth_methods, secret_id, outcome>>

\* Number of call frames that may be in flight at once.
NumCalls == 2

Calls == 1..NumCalls

---------------------------------------------------------------------------
(* Strings, as sequences of characters.                                    *)

s_data == <<"d", "a", "t", "a">>
s_approle == <<"a", "p", "p", "r", "o", "l", "e">>
s_secret_id == <<"s", "e", "c", "r", "e", "t", "_", "i", "d">>
s_type == <<"t", "y", "p", "e">>
s_other == <<"o", "t", "h", "e", "r">>
s_abc123 == <<"a", "b", "c", "1", "2", "3">>
s_padded == <<" ", "a", " ">>
s_xapprolex == <<"x">> \o s_approle \o <<"x">>
s_x == <<"x">>

---------------------------------------------------------------------------
(* Python values.                                                          *)

PyValue(t, s, keys, items) == [t |-> t, s |-> s, keys |-> keys, items |-> items]

PyNone == PyValue("NoneType", <<>>, <<>>, <<>>)
PyBool(b) == PyValue("bool", IF b THEN <<"1">> ELSE <<"0">>, <<>>, <<>>)
PyInt(s) == PyValue("int", s, <<>>, <<>>)
PyFloat(s) == PyValue("float", s, <<>>, <<>>)
PyStr(s) == PyValue("str", s, <<>>, <<>>)
PyList(items) == PyValue("list", <<>>, <<>>, items)
PyDict(keys, items) == PyValue("dict", <<>>, keys, items)

\* Position of key k in a dict's keys, 0 when absent.
KeyIndex(keys, k) ==
    IF \E i \in 1..Len(keys) : keys[i] = k
    THEN CHOOSE i \in 1..Len(keys) : keys[i] = k
    ELSE 0

\* d[k] = v on a dict under construction: a repeated key keeps its place and
\* takes the last value.
DictSet(keys, items, k, v) ==
    LET i == KeyIndex(keys, k)
    IN  IF i = 0
        THEN [keys |-> Append(keys, k), items |-> Append(items, v)]
        ELSE [keys |-> keys, items |-> [items EXCEPT ![i] = v]]

---------------------------------------------------------------------------
(* JSON tokens.                                                            *)

Tok(k, v) == [k |-> k, v |-> v]

LBrace == Tok("punct", <<"{">>)
RBrace == Tok("punct", <<"}">>)
LBracket == Tok("punct", <<"[">>)
RBracket == Tok("punct", <<"]">>)
Colon == Tok("punct", <<":">>)
Comma == Tok("punct", <<",">>)
TStr(s) == Tok("str", s)
TNum(s) == Tok("num", s)
TLit(s) == Tok("lit", s)
\* NaN, Infinity, -Infinity: no JSON tokens, but the decoder reads them.
TConst(s) == Tok("const", s)
\* Text that is no JSON token at all (a bare word, a single-quoted string).
TJunk == Tok("junk", <<"n", "o", "t">>)

w_null == <<"n", "u", "l", "l">>
w_true == <<"t", "r", "u", "e">>
w_false == <<"f", "a", "l", "s", "e">>
w_NaN == <<"N", "a", "N">>
w_nan == <<"n", "a", "n">>

---------------------------------------------------------------------------
(* json.loads, as the standard decoder runs it: object and array by        *)
(* recursive descent, numbers and literals converted to Python values,     *)
(* NaN / Infinity / -Infinity accepted as floats (parse_constant), and the *)
(* whole text consumed (trailing text is "Extra data").                    *)

ParseOk(v, next) == [ok |-> TRUE, val |-> v, next |-> next]
ParseFail == [ok |-> FALSE, val |-> PyNone, next |-> 0]

\* int(...) or float(...) of a number token.
NumValue(s) ==
    IF \E i \in 1..Len(s) : s[i] = "."
    THEN PyFloat(s)
    ELSE PyInt(s)

LitValue(s) ==
    IF s = w_null THEN PyNone ELSE PyBool(s = w_true)

\* float("nan"), float("inf"), float("-inf").
ConstValue(s) ==
    IF s = w_NaN THEN PyFloat(w_nan)
    ELSE IF s[1] = "-" THEN PyFloat(<<"-", "i", "n", "f">>)
    ELSE PyFloat(<<"i", "n", "f">>)

RECURSIVE ParseValue(_, _), ParseMembers(_, _, _, _), ParseElements(_, _, _)

\* scanner.scan_once at token i.
ParseValue(toks, i) ==
    IF i > Len(toks) THEN ParseFail
    ELSE LET tk == toks[i]
         IN  CASE tk.k = "str" -> ParseOk(PyStr(tk.v), i + 1)
               [] tk.k = "num" -> ParseOk(NumValue(tk.v), i + 1)
               [] tk.k = "lit" -> ParseOk(LitValue(tk.v), i + 1)
               [] tk.k = "const" -> ParseOk(ConstValue(tk.v), i + 1)
               [] tk = LBrace ->
                    IF i + 1 <= Len(toks) /\ toks[i + 1] = RBrace
                    THEN ParseOk(PyDict(<<>>, <<>>), i + 2)
                    ELSE ParseMembers(toks, i + 1, <<>>, <<>>)
               [] tk = LBracket ->
                    IF i + 1 <= Len(toks) /\ toks[i + 1] = RBracket
                    THEN ParseOk(PyList(<<>>), i + 2)
                    ELSE ParseElements(toks, i + 1, <<>>)
               [] OTHER -> ParseFail

\* JSONObject: "key" : value, then "," and another member, or "}".
ParseMembers(toks, i, keys, items) ==
    IF i + 1 > Len(toks) \/ toks[i].k # "str" \/ toks[i + 1] # Colon
    THEN ParseFail
    ELSE LET r == ParseValue(toks, i + 2)
         IN  IF ~r.ok \/ r.next > Len(toks) THEN ParseFail
             ELSE LET d == DictSet(keys, items, toks[i].v, r.val)
                  IN  IF toks[r.next] = RBrace
                      THEN ParseOk(PyDict(d.keys, d.items), r.next + 1)
                      ELSE IF toks[r.next] = Comma
                      THEN ParseMembers(toks, r.next + 1, d.keys, d.items)
                      ELSE ParseFail

\* JSONArray: value, then "," and another element, or "]".
ParseElements(toks, i, items) ==
    LET r == ParseValue(toks, i)
    IN  IF ~r.ok \/ r.next > Len(toks) THEN ParseFail
        ELSE IF toks[r.next] = RBracket
        THEN ParseOk(PyList(Append(items, r.val)), r.next + 1)
        ELSE IF toks[r.next] = Comma
        THEN ParseElements(toks, r.next + 1, Append(items, r.val))
        ELSE ParseFail

\* Variant: JSONDecoder.raw_decode, which reads the first value and ignores
\* whatever follows it.
raw_decode(toks) ==
    LET r == ParseValue(toks, 1)
    IN  [ok |-> r.ok, val |-> r.val]

\* json.loads(payload): ok = FALSE stands for JSONDecodeError.
json_loads(toks) ==
    LET r == ParseValue(toks, 1)
    IN  [ok |-> r.ok /\ r.next = Len(toks) + 1, val |-> r.val]

---------------------------------------------------------------------------
(* The Python operations the two functions apply to the decoded document.  *)

\* obj.get(key, default): ok = FALSE stands for AttributeError (only a dict
\* has .get).
dict_get(obj, key, default) ==
    IF obj.t # "dict" THEN [ok |-> FALSE, val |-> PyNone]
    ELSE LET i == KeyIndex(obj.keys, key)
         IN  [ok |-> TRUE, val |-> IF i = 0 THEN default ELSE obj.items[i]]

\* needle occurs in hay as a contiguous run (str.__contains__).
IsSubstring(needle, hay) ==
    \E i \in 0..Len(hay) :
        /\ i + Len(needle) <= Len(hay)
        /\ \A j \in 1..Len(needle) : hay[i + j] = needle[j]

\* (key in container): dict by key, list by element equality, str by
\* substring; ok = FALSE stands for TypeError (argument is not iterable).
py_contains(key, container) ==
    CASE container.t = "dict" ->
            [ok |-> TRUE, val |-> KeyIndex(container.keys, key) # 0]
      [] container.t = "list" ->
            [ok |-> TRUE,
             val |-> \E i \in 1..Len(container.items) :
                        container.items[i] = PyStr(key)]
      [] container.t = "str" ->
            [ok |-> TRUE, val |-> IsSubstring(key, container.s)]
      [] OTHER -> [ok |-> FALSE, val |-> FALSE]

\* bool(v).
py_truthy(v) ==
    CASE v.t = "NoneType" -> FALSE
      [] v.t = "bool" -> v.s = <<"1">>
      [] v.t = "int" -> v.s # <<"0">>
      [] v.t = "float" -> v.s \notin {<<"0", ".", "0">>, <<"-", "0", ".", "0">>}
      [] v.t = "str" -> Len(v.s) > 0
      [] v.t = "list" -> Len(v.items) > 0
      [] v.t = "dict" -> Len(v.keys) > 0
      [] OTHER -> TRUE

---------------------------------------------------------------------------
(* What a statement of a function does: go on with a value, return one, or *)
(* raise.  An outcome is what the caller sees.                             *)

NoOutcome == [kind |-> "none", exc |-> "", msg |-> "", val |-> PyNone]
Continue(v) == [kind |-> "continue", exc |-> "", msg |-> "", val |-> v]
Return(v) == [kind |-> "return", exc |-> "", msg |-> "", val |-> v]
Raise(exc, msg) == [kind |-> "raise", exc |-> exc, msg |-> msg, val |-> PyNone]

VaultBootstrapError(msg) == Raise("VaultBootstrapError", msg)
AttributeError == Raise("AttributeError", "object has no attribute 'get'")
TypeError == Raise("TypeError", "argument is not iterable")

EnsureDecodeMsg == "Failed to decode Vault response whilst verifying AppRole auth"
EnsureNotEnabledMsg == "AppRole authentication is not enabled for the target Vault"
GenerateDecodeMsg == "Failed to decode Vault response whilst generating a secret-id"
GenerateMissingMsg == "Vault response missing secret_id field"

(* _ensure_approle_auth_enabled *)

\* try: data = json.loads(payload) / except json.JSONDecodeError: raise
EnsureDecode(p) ==
    LET r == json_loads(p)
    IN  IF r.ok THEN Continue(r.val) ELSE VaultBootstrapError(EnsureDecodeMsg)

\* auth_methods = data.get("data", {})
EnsureLookup(d) ==
    LET r == dict_get(d, s_data, PyDict(<<>>, <<>>))
    IN  IF r.ok THEN Continue(r.val) ELSE AttributeError

\* Variant: returns only the approle entry instead of the whole mapping.
EnsureCheckApproleOnly(am) ==
    LET r == py_contains(s_approle, am)
    IN  IF ~r.ok THEN TypeError
        ELSE IF ~r.val THEN VaultBootstrapError(EnsureNotEnabledMsg)
        ELSE IF am.t = "dict"
        THEN Return(PyDict(<<s_approle>>,
                           <<am.items[KeyIndex(am.keys, s_approle)]>>))
        ELSE Return(am)

\* if "approle" not in auth_methods: raise ... / return auth_methods
EnsureCheck(am) ==
    LET r == py_contains(s_approle, am)
    IN  IF ~r.ok THEN TypeError
        ELSE IF ~r.val THEN VaultBootstrapError(EnsureNotEnabledMsg)
        ELSE Return(am)

(* _generate_secret_id *)

\* Variant: the decode failure carries the other function's message.
GenerateDecodeOtherMsg(p) ==
    LET r == json_loads(p)
    IN  IF r.ok THEN Continue(r.val) ELSE VaultBootstrapError(EnsureDecodeMsg)

\* try: data = json.loads(payload) / except json.JSONDecodeError: raise
GenerateDecode(p) ==
    LET r == json_loads(p)
    IN  IF r.ok THEN Continue(r.val) ELSE VaultBootstrapError(GenerateDecodeMsg)

\* secret_id = data.get("data", {}).get("secret_id")
GenerateLookup(d) ==
    LET r == dict_get(d, s_data, PyDict(<<>>, <<>>))
    IN  IF ~r.ok THEN AttributeError
        ELSE LET q == dict_get(r.val, s_secret_id, PyNone)
             IN  IF q.ok THEN Continue(q.val) ELSE AttributeError

\* Variant: returns the secret with its blanks removed.
GenerateCheckTrimmed(sid) ==
    IF ~py_truthy(sid) THEN VaultBootstrapError(GenerateMissingMsg)
    ELSE IF sid.t = "str"
    THEN Return(PyStr(SelectSeq(sid.s, LAMBDA c : c # " ")))
    ELSE Return(sid)

\* if not secret_id: raise ... / return secret_id
GenerateCheck(sid) ==
    IF ~py_truthy(sid) THEN VaultBootstrapError(GenerateMissingMsg)
    ELSE Return(sid)

\* _ensure_approle_auth_enabled(payload), run from entry to exit.
_ensure_approle_auth_enabled(p) ==
    LET a == EnsureDecode(p)
    IN  IF a.kind # "continue" THEN a
        ELSE LET b == EnsureLookup(a.val)
             IN  IF b.kind # "continue" THEN b ELSE EnsureCheck(b.val)

\* _generate_secret_id(payload), run from entry to exit.
_generate_secret_id(p) ==
    LET a == GenerateDecode(p)
    IN  IF a.kind # "continue" THEN a
        ELSE LET b == GenerateLookup(a.val)
             IN  IF b.kind # "continue" THEN b ELSE GenerateCheck(b.val)

---------------------------------------------------------------------------
(* The payloads a caller may pass: the JSON text of a document, and that   *)
(* text damaged (cut short, with text after it, with a trailing comma).    *)

i_0 == <<"0">>
i_5 == <<"5">>
f_0 == <<"0", ".", "0">>
w_Infinity == <<"I", "n", "f", "i", "n", "i", "t", "y">>

RECURSIVE Encode(_), EncodeElements(_, _), EncodeMembers(_, _, _)

\* The JSON text (as tokens) of a Python value.
Encode(v) ==
    CASE v.t = "NoneType" -> <<TLit(w_null)>>
      [] v.t = "bool" -> <<TLit(IF v.s = <<"1">> THEN w_true ELSE w_false)>>
      [] v.t = "int" -> <<TNum(v.s)>>
      [] v.t = "float" ->
            IF v.s = w_nan THEN <<TConst(w_NaN)>>
            ELSE IF v.s = <<"i", "n", "f">> THEN <<TConst(w_Infinity)>>
            ELSE <<TNum(v.s)>>
      [] v.t = "str" -> <<TStr(v.s)>>
      [] v.t = "list" ->
            IF Len(v.items) = 0 THEN <<LBracket, RBracket>>
            ELSE <<LBracket>> \o EncodeElements(v.items, 1) \o <<RBracket>>
      [] v.t = "dict" ->
            IF Len(v.keys) = 0 THEN <<LBrace, RBrace>>
            ELSE <<LBrace>> \o EncodeMembers(v.keys, v.items, 1) \o <<RBrace>>

EncodeElements(items, i) ==
    IF i = Len(items) THEN Encode(items[i])
    ELSE Encode(items[i]) \o <<Comma>> \o EncodeElements(items, i + 1)

EncodeMembers(keys, items, i) ==
    IF i = Len(keys) THEN <<TStr(keys[i]), Colon>> \o Encode(items[i])
    ELSE <<TStr(keys[i]), Colon>> \o Encode(items[i]) \o <<Comma>>
            \o EncodeMembers(keys, items, i + 1)

\* Marks a key left out of a document.
Absent == PyValue("absent", <<>>, <<>>, <<>>)

\* A dict with the given keys, those whose value is Absent left out.
RECURSIVE DictOf(_, _, _)
DictOf(keys, items, i) ==
    IF i > Len(keys) THEN PyDict(<<>>, <<>>)
    ELSE LET rest == DictOf(keys, items, i + 1)
         IN  IF items[i] = Absent THEN rest
             ELSE PyDict(<<keys[i]>> \o rest.keys, <<items[i]>> \o rest.items)

\* Values stored under data.approle.
ApproleVals ==
    { PyDict(<<s_type>>, <<PyStr(s_approle)>>), PyNone, PyFloat(w_nan) }

\* Values stored under data.secret_id.
SecretVals ==
    { PyStr(s_abc123), PyStr(s_padded), PyStr(<<>>),
      PyInt(i_0), PyInt(i_5), PyFloat(f_0), PyFloat(w_nan),
      PyNone, PyBool(FALSE), PyBool(TRUE),
      PyList(<<>>), PyList(<<PyStr(s_x)>>),
      PyDict(<<>>, <<>>), PyDict(<<s_x>>, <<PyInt(i_5)>>) }

\* data as a mapping: approle, secret_id and another key, each present or not.
DataDicts ==
    { DictOf(<<s_approle, s_secret_id, s_x>>, <<a, sid, x>>, 1) :
        a \in ApproleVals \cup {Absent},
        sid \in SecretVals \cup {Absent},
        x \in {PyInt(i_5), Absent} }

\* data as anything but a mapping.
DataOthers ==
    { PyNone, PyInt(i_5), PyBool(TRUE), PyFloat(w_nan),
      PyStr(s_x), PyStr(s_xapprolex),
      PyList(<<>>), PyList(<<PyStr(s_approle)>>), PyList(<<PyStr(s_x)>>) }

\* Decoded documents: objects with and without data, and other top levels.
Docs ==
    { PyDict(<<s_data>>, <<d>>) : d \in DataDicts \cup DataOthers }
    \cup { PyDict(<<s_other, s_data>>, <<PyInt(i_5), d>>) :
            d \in { DictOf(<<s_approle, s_secret_id>>, <<a, sid>>, 1) :
                      a \in {PyNone, Absent}, sid \in {PyStr(s_abc123), Absent} } }
    \cup { PyDict(<<>>, <<>>), PyDict(<<s_other>>, <<PyInt(i_5)>>) }
    \cup { PyNone, PyInt(i_5), PyBool(TRUE), PyFloat(w_nan), PyStr(s_approle),
           PyList(<<>>), PyList(<<PyStr(s_data)>>) }

DocTexts == { Encode(v) : v \in Docs }

\* A text cut short, followed by more text, or with a comma before its
\* closing bracket.
Damaged(text) ==
    { SubSeq(text, 1, n) : n \in 0..(Len(text) - 1) }
    \cup { text \o <<TJunk>>, text \o <<RBrace>>, <<TJunk>> \o text }
    \cup { SubSeq(text, 1, Len(text) - 1) \o <<Comma, text[Len(text)]>> }

Payloads ==
    DocTexts \cup UNION { Damaged(text) : text \in DocTexts }
    \cup { <<TJunk, TJunk>> }

\* The payloads of the interleaved calls: one of each shape.
SmallPayloads ==
    { Encode(PyDict(<<s_data>>, <<PyDict(<<s_approle>>, <<PyNone>>)>>)),
      Encode(PyDict(<<s_data>>, <<PyDict(<<s_secret_id>>, <<PyStr(s_abc123)>>)>>)),
      Encode(PyDict(<<s_data>>, <<PyList(<<PyStr(s_approle)>>)>>)),
      Encode(PyDict(<<>>, <<>>)),
      Encode(PyList(<<>>)),
      <<TJunk, TJunk>> }

---------------------------------------------------------------------------
(* The calls.  A frame is idle, or at one of the three statements of its   *)
(* function (decode, lookup, check), or done with its outcome on hand.     *)

Functions == {"_ensure_approle_auth_enabled", "_generate_secret_id"}

\* A local that is not bound (yet).
Unbound == PyValue("unbound", <<>>, <<>>, <<>>)

\* Variant: the locals live in one place shared by all calls.
SharedValue(locals, t) == locals[1]

\* A statement reads a local from the frame of the call that runs it.
FrameValue(locals, t) == locals[t]

Init ==
    /\ pc = [t \in Calls |-> "idle"]
    /\ fn = [t \in Calls |-> "none"]
    /\ payload = [t \in Calls |-> <<>>]
    /\ data = [t \in Calls |-> Unbound]
    /\ auth_methods = [t \in Calls |-> Unbound]
    /\ secret_id = [t \in Calls |-> Unbound]
    /\ outcome = [t \in Calls |-> NoOutcome]

\* The caller invokes one of the functions on a payload.
Call(t, pool) ==
    /\ pc[t] = "idle"
    /\ \E f \in Functions, p \in pool :
        /\ fn' = [fn EXCEPT ![t] = f]
        /\ payload' = [payload EXCEPT ![t] = p]
    /\ pc' = [pc EXCEPT ![t] = "decode"]
    /\ UNCHANGED <<data, auth_methods, secret_id, outcome>>

\* The statement's result r: go on to the next statement, or leave the
\* function with r as the outcome.
Leave(t, r) ==
    /\ pc' = [pc EXCEPT ![t] = "done"]
    /\ outcome' = [outcome EXCEPT ![t] = r]

EnsureDecodeStep(t) ==
    /\ pc[t] = "decode"
    /\ fn[t] = "_ensure_approle_auth_enabled"
    /\ LET r == EnsureDecode(FrameValue(payload, t))
       IN  IF r.kind = "continue"
           THEN /\ data' = [data EXCEPT ![t] = r.val]
                /\ pc' = [pc EXCEPT ![t] = "lookup"]
                /\ UNCHANGED outcome
           ELSE /\ Leave(t, r)
                /\ UNCHANGED data
    /\ UNCHANGED <<fn, payload, auth_methods, secret_id>>

EnsureLookupStep(t) ==
    /\ pc[t] = "lookup"
    /\ fn[t] = "_ensure_approle_auth_enabled"
    /\ LET r == EnsureLookup(FrameValue(data, t))
       IN  IF r.kind = "continue"
           THEN /\ auth_methods' = [auth_methods EXCEPT ![t] = r.val]
                /\ pc' = [pc EXCEPT ![t] = "check"]
                /\ UNCHANGED outcome
           ELSE /\ Leave(t, r)
                /\ UNCHANGED auth_methods
    /\ UNCHANGED <<fn, payload, data, secret_id>>

EnsureCheckStep(t) ==
    /\ pc[t] = "check"
    /\ fn[t] = "_ensure_approle_auth_enabled"
    /\ Leave(t, EnsureCheck(FrameValue(auth_methods, t)))
    /\ UNCHANGED <<fn, payload, data, auth_methods, secret_id>>

GenerateDecodeStep(t) ==
    /\ pc[t] = "decode"
    /\ fn[t] = "_generate_secret_id"
    /\ LET r == GenerateDecode(FrameValue(payload, t))
       IN  IF r.kind = "continue"
           THEN /\ data' = [data EXCEPT ![t] = r.val]
                /\ pc' = [pc EXCEPT ![t] = "lookup"]
                /\ UNCHANGED outcome
           ELSE /\ Leave(t, r)
                /\ UNCHANGED data
    /\ UNCHANGED <<fn, payload, auth_methods, secret_id>>

GenerateLookupStep(t) ==
    /\ pc[t] = "lookup"
    /\ fn[t] = "_generate_secret_id"
    /\ LET r == GenerateLookup(FrameValue(data, t))
       IN  IF r.kind = "continue"
           THEN /\ secret_id' = [secret_id EXCEPT ![t] = r.val]
                /\ pc' = [pc EXCEPT ![t] = "check"]
                /\ UNCHANGED outcome
           ELSE /\ Leave(t, r)
                /\ UNCHANGED secret_id
    /\ UNCHANGED <<fn, payload, data, auth_methods>>

GenerateCheckStep(t) ==
    /\ pc[t] = "check"
    /\ fn[t] = "_generate_secret_id"
    /\ Leave(t, GenerateCheck(FrameValue(secret_id, t)))
    /\ UNCHANGED <<fn, payload, data, auth_methods, secret_id>>

\* The caller takes the outcome; the frame and its locals are gone.
ReturnToCaller(t) ==
    /\ pc[t] = "done"
    /\ pc' = [pc EXCEPT ![t] = "idle"]
    /\ fn' = [fn EXCEPT ![t] = "none"]
    /\ payload' = [payload EXCEPT ![t] = <<>>]
    /\ data' = [data EXCEPT ![t] = Unbound]
    /\ auth_methods' = [auth_methods EXCEPT ![t] = Unbound]
    /\ secret_id' = [secret_id EXCEPT ![t] = Unbound]
    /\ outcome' = [outcome EXCEPT ![t] = NoOutcome]

Step(t, pool) ==
    \/ Call(t, pool)
    \/ EnsureDecodeStep(t)
    \/ EnsureLookupStep(t)
    \/ EnsureCheckStep(t)
    \/ GenerateDecodeStep(t)
    \/ GenerateLookupStep(t)
    \/ GenerateCheckStep(t)
    \/ ReturnToCaller(t)

\* One call at a time, on any payload.
Next == Step(1, Payloads)

Spec == Init /\ [][Next]_vars

\* Calls interleaved statement by statement.
NextConc == \E t \in Calls : Step(t, SmallPayloads)

SpecConc == Init /\ [][NextConc]_vars

---------------------------------------------------------------------------
(* The vocabulary of the claims: what "valid JSON" is (the grammar of RFC  *)
(* 8259, recognised by a pushdown scan that builds no value), which        *)
(* document a valid text stands for, and what the document holds.          *)

RECURSIVE Scan(_, _, _, _, _)

\* The tokens from i on complete a JSON text, given the open brackets in
\* stack and what the grammar expects next.  With lenient, the constants
\* NaN, Infinity and -Infinity count as numbers.
Scan(toks, i, stack, expect, lenient) ==
    IF i > Len(toks) THEN expect = "after" /\ stack = <<>>
    ELSE
    LET tk == toks[i]
        scalar == tk.k \in {"str", "num", "lit"} \/ (lenient /\ tk.k = "const")
        top == IF stack = <<>> THEN "none" ELSE stack[Len(stack)]
        pop == SubSeq(stack, 1, Len(stack) - 1)
    IN  CASE expect \in {"value", "first_element"} ->
                IF scalar THEN Scan(toks, i + 1, stack, "after", lenient)
                ELSE IF tk = LBrace
                THEN Scan(toks, i + 1, Append(stack, "object"), "first_member", lenient)
                ELSE IF tk = LBracket
                THEN Scan(toks, i + 1, Append(stack, "array"), "first_element", lenient)
                ELSE IF tk = RBracket /\ expect = "first_element"
                THEN Scan(toks, i + 1, pop, "after", lenient)
                ELSE FALSE
          [] expect \in {"member", "first_member"} ->
                IF tk.k = "str" THEN Scan(toks, i + 1, stack, "colon", lenient)
                ELSE IF tk = RBrace /\ expect = "first_member"
                THEN Scan(toks, i + 1, pop, "after", lenient)
                ELSE FALSE
          [] expect = "colon" ->
                tk = Colon /\ Scan(toks, i + 1, stack, "value", lenient)
          [] expect = "after" ->
                IF top = "object" /\ tk = Comma
                THEN Scan(toks, i + 1, stack, "member", lenient)
                ELSE IF top = "object" /\ tk = RBrace
                THEN Scan(toks, i + 1, pop, "after", lenient)
                ELSE IF top = "array" /\ tk = Comma
                THEN Scan(toks, i + 1, stack, "value", lenient)
                ELSE IF top = "array" /\ tk = RBracket
                THEN Scan(toks, i + 1, pop, "after", lenient)
                ELSE FALSE

\* The payload is valid JSON.
IsValidJSON(p) == Scan(p, 1, <<>>, "value", FALSE)

\* The payload is valid JSON once NaN, Infinity and -Infinity are admitted as
\* numbers.
IsValidJSONWithConstants(p) == Scan(p, 1, <<>>, "value", TRUE)

\* The document a valid JSON text stands for.
DocOf(p) == CHOOSE v \in Docs : Encode(v) = p

IsMapping(v) == v.t = "dict"

HasKey(v, k) == IsMapping(v) /\ \E i \in 1..Len(v.keys) : v.keys[i] = k

\* The value a mapping stores under a key it has.
Member(v, k) == v.items[CHOOSE i \in 1..Len(v.keys) : v.keys[i] = k]

\* The document contains data.approle.
HasDataApprole(doc) ==
    HasKey(doc, s_data) /\ HasKey(Member(doc, s_data), s_approle)

\* The document contains data.secret_id.
HasDataSecretId(doc) ==
    HasKey(doc, s_data) /\ HasKey(Member(doc, s_data), s_secret_id)

\* The empty and falsy JSON values: "", null, false, 0, [] and {}.
EmptyValues ==
    { PyStr(<<>>), PyNone, PyBool(FALSE), PyInt(i_0), PyFloat(f_0),
      PyList(<<>>), PyDict(<<>>, <<>>) }

\* The document contains a non-empty data.secret_id.
HasNonEmptySecretId(doc) ==
    /\ HasDataSecretId(doc)
    /\ Member(Member(doc, s_data), s_secret_id) \notin EmptyValues

\* data is a mapping, or the top level is an object without data.
DataIsMappingOrAbsent(doc) ==
    /\ IsMapping(doc)
    /\ HasKey(doc, s_data) => IsMapping(Member(doc, s_data))

Done(t, f) == pc[t] = "done" /\ fn[t] = f

\* Every valid payload of the model is the text of one of its documents.
ValidPayloadsHaveDocs ==
    \A p \in Payloads : IsValidJSON(p) => \E v \in Docs : Encode(v) = p

---------------------------------------------------------------------------
(* The claims.                                                             *)

ENSURE == "_ensure_approle_auth_enabled"
GENERATE == "_generate_secret_id"

\* C1: for every payload that is valid JSON and contains data.approle,
\* _ensure_approle_auth_enabled does not fail and returns the value stored
\* under data, with the keys and values of the decoded document (keys other
\* than approle included).
C1_EnsureReturnsDataUnchanged ==
    \A t \in Calls :
        ( /\ Done(t, ENSURE)
          /\ IsValidJSON(payload[t])
          /\ HasDataApprole(DocOf(payload[t])) )
        => outcome[t] = Return(Member(DocOf(payload[t]), s_data))

\* A call on a valid payload whose data has approle and other keys returned.
C1_Witness ==
    \E t \in Calls :
        /\ Done(t, ENSURE)
        /\ IsValidJSON(payload[t])
        /\ HasDataApprole(DocOf(payload[t]))
        /\ Len(Member(DocOf(payload[t]), s_data).keys) > 1
        /\ outcome[t].kind = "return"

\* C2: for every payload that is valid JSON and contains a non-empty
\* data.secret_id, _generate_secret_id returns exactly that value: nothing
\* trimmed, re-encoded or otherwise transformed.
C2_GenerateReturnsExactSecret ==
    \A t \in Calls :
        ( /\ Done(t, GENERATE)
          /\ IsValidJSON(payload[t])
          /\ HasNonEmptySecretId(DocOf(payload[t])) )
        => outcome[t] =
             Return(Member(Member(DocOf(payload[t]), s_data), s_secret_id))

\* A call returned a secret that has blanks at both ends.
C2_Witness ==
    \E t \in Calls :
        /\ Done(t, GENERATE)
        /\ IsValidJSON(payload[t])
        /\ HasNonEmptySecretId(DocOf(payload[t]))
        /\ outcome[t] = Return(PyStr(s_padded))

\* C3: for every payload that is valid JSON in which data lacks the key
\* approle (data absent included), _ensure_approle_auth_enabled fails with
\* VaultBootstrapError "AppRole authentication is not enabled for the target
\* Vault" and returns no value.
C3_EnsureNotEnabled ==
    \A t \in Calls :
        ( /\ Done(t, ENSURE)
          /\ IsValidJSON(payload[t])
          /\ ~HasDataApprole(DocOf(payload[t])) )
        => outcome[t] = VaultBootstrapError(EnsureNotEnabledMsg)

\* Where C3 does hold: the top level is an object and data is a mapping or
\* absent.
C3_EnsureNotEnabledOnMappings ==
    \A t \in Calls :
        ( /\ Done(t, ENSURE)
          /\ IsValidJSON(payload[t])
          /\ DataIsMappingOrAbsent(DocOf(payload[t]))
          /\ ~HasDataApprole(DocOf(payload[t])) )
        => outcome[t] = VaultBootstrapError(EnsureNotEnabledMsg)

\* C4: for every payload that is valid JSON in which data.secret_id is
\* missing, empty or otherwise falsy, or data is absent, _generate_secret_id
\* fails with VaultBootstrapError "Vault response missing secret_id field" and
\* returns no value.
C4_GenerateMissingSecret ==
    \A t \in Calls :
        ( /\ Done(t, GENERATE)
          /\ IsValidJSON(payload[t])
          /\ ~HasNonEmptySecretId(DocOf(payload[t])) )
        => outcome[t] = VaultBootstrapError(GenerateMissingMsg)

\* Where C4 does hold: the top level is an object and data is a mapping or
\* absent.
C4_GenerateMissingSecretOnMappings ==
    \A t \in Calls :
        ( /\ Done(t, GENERATE)
          /\ IsValidJSON(payload[t])
          /\ DataIsMappingOrAbsent(DocOf(payload[t]))
          /\ ~HasNonEmptySecretId(DocOf(payload[t])) )
        => outcome[t] = VaultBootstrapError(GenerateMissingMsg)

\* C5, as stated: for every payload that is not valid JSON,
\* _ensure_approle_auth_enabled fails with VaultBootstrapError "Failed to
\* decode Vault response whilst verifying AppRole auth".
C5_EnsureDecodeErrorOnInvalidJSON ==
    \A t \in Calls :
        (Done(t, ENSURE) /\ ~IsValidJSON(payload[t]))
        => outcome[t] = VaultBootstrapError(EnsureDecodeMsg)

\* C5, amended: for every payload that is not valid JSON even when NaN,
\* Infinity and -Infinity are admitted as numbers,
\* _ensure_approle_auth_enabled fails with VaultBootstrapError "Failed to
\* decode Vault response whilst verifying AppRole auth" (and so never with the
\* "not enabled" message).
C5_EnsureDecodeErrorOnRejectedText ==
    \A t \in Calls :
        (Done(t, ENSURE) /\ ~IsValidJSONWithConstants(payload[t]))
        => outcome[t] = VaultBootstrapError(EnsureDecodeMsg)

\* A call on a complete document followed by more text failed to decode.
C5_Witness ==
    \E t \in Calls :
        /\ Done(t, ENSURE)
        /\ ~IsValidJSONWithConstants(payload[t])
        /\ Len(payload[t]) > 1
        /\ IsValidJSON(SubSeq(payload[t], 1, Len(payload[t]) - 1))
        /\ outcome[t] = VaultBootstrapError(EnsureDecodeMsg)

\* C6, as stated: for every payload that is not valid JSON,
\* _generate_secret_id fails with VaultBootstrapError "Failed to decode Vault
\* response whilst generating a secret-id".
C6_GenerateDecodeErrorOnInvalidJSON ==
    \A t \in Calls :
        (Done(t, GENERATE) /\ ~IsValidJSON(payload[t]))
        => outcome[t] = VaultBootstrapError(GenerateDecodeMsg)

\* C6, amended: for every payload that is not valid JSON even when NaN,
\* Infinity and -Infinity are admitted as numbers, _generate_secret_id fails
\* with VaultBootstrapError "Failed to decode Vault response whilst generating
\* a secret-id" (and so never with the "missing secret_id" message).
C6_GenerateDecodeErrorOnRejectedText ==
    \A t \in Calls :
        (Done(t, GENERATE) /\ ~IsValidJSONWithConstants(payload[t]))
        => outcome[t] = VaultBootstrapError(GenerateDecodeMsg)

\* A call on a document cut short failed to decode.
C6_Witness ==
    \E t \in Calls :
        /\ Done(t, GENERATE)
        /\ ~IsValidJSONWithConstants(payload[t])
        /\ \E text \in DocTexts :
              /\ Len(payload[t]) < Len(text)
              /\ payload[t] = SubSeq(text, 1, Len(payload[t]))
        /\ Len(payload[t]) > 0
        /\ outcome[t] = VaultBootstrapError(GenerateDecodeMsg)

Messages(f) ==
    IF f = ENSURE
    THEN {EnsureDecodeMsg, EnsureNotEnabledMsg}
    ELSE {GenerateDecodeMsg, GenerateMissingMsg}

\* C7: for every payload whatsoever, each function ends either with a value
\* or with a VaultBootstrapError carrying one of its two messages; no other
\* kind of failure escapes.
C7_OnlyBootstrapErrorEscapes ==
    \A t \in Calls :
        pc[t] = "done"
        => \/ outcome[t].kind = "return"
           \/ /\ outcome[t].kind = "raise"
              /\ outcome[t].exc = "VaultBootstrapError"
              /\ outcome[t].msg \in Messages(fn[t])

\* C8: whenever _generate_secret_id succeeds, the value it returns is a text
\* string.
C8_GenerateReturnsText ==
    \A t \in Calls :
        (Done(t, GENERATE) /\ outcome[t].kind = "return")
        => outcome[t].val.t = "str"

\* C9: whenever _ensure_approle_auth_enabled succeeds, the value it returns is
\* a mapping that has approle among its keys.
C9_EnsureReturnsMappingWithApprole ==
    \A t \in Calls :
        (Done(t, ENSURE) /\ outcome[t].kind = "return")
        => HasKey(outcome[t].val, s_approle)

\* What a call owns.
Frame(t) ==
    <<pc[t], fn[t], payload[t], data[t], auth_methods[t], secret_id[t], outcome[t]>>

\* The outcome of f on p when nothing else runs.
Alone(f, p) ==
    IF f = ENSURE THEN _ensure_approle_auth_enabled(p) ELSE _generate_secret_id(p)

\* C10: across any interleaving of calls to the two functions, each call
\* yields the outcome it yields when run alone on its payload, and a step of
\* one call changes nothing of another call.
C10_CallsAreIndependent ==
    /\ [](\A t \in Calls :
            pc[t] = "done" => outcome[t] = Alone(fn[t], payload[t]))
    /\ [][\A t, u \in Calls :
            (t # u /\ Frame(t)' # Frame(t)) => Frame(u)' = Frame(u)]_vars

\* Two calls of different functions, interleaved, both returned a value.
C10_Witness ==
    \E t, u \in Calls :
        /\ t # u
        /\ Done(t, ENSURE) /\ outcome[t].kind = "return"
        /\ Done(u, GENERATE) /\ outcome[u].kind = "return"

=============================================================================
